---- MODULE Spec2Model ----
(***************************************************************************)
(* Model of the mesh viewer in src/src/main.rs: the geometry pipeline      *)
(* (triangulation, per-vertex normals, tiling, slope colouring) and the    *)
(* frame loop that drives it (ui_system, update_mesh, deferred commands),  *)
(* and of src/src/net.rs: the actor messages, their JSON form and try_read *)
(* on the length-prefixed stream of a non-blocking socket.                 *)
(*                                                                         *)
(* Number representation.  Positions are integers (every integer used is   *)
(* exact in f32).  Normal components are fixed point in thousandths        *)
(* (1.0 = 1000).  A float NaN is the sentinel NaN; every float operation   *)
(* below propagates it and every float comparison with it is false, as     *)
(* IEEE-754 does.  A slope angle is an integer count of AngleUnit =        *)
(* 2^-23 degree, which is f32::EPSILON, so 1 degree = 8388608.             *)
(***************************************************************************)
EXTENDS Integers, Sequences, FiniteSets, TLC

VARIABLES
    viewer,        \* MeshViewer component: obj_path, walkable_slope_angle, needs_update
    mesh_data,     \* MeshData resource: vertices, indices, normals, tile_size
    tile_entities, \* the spawned TileMesh entities, each with its mesh
    debug_mesh,    \* the DebugMesh entity's mesh, spawned by setup
    commands,      \* the deferred Commands update_mesh queued in this frame
    ran,           \* which Update systems have run in the current frame
    gen,           \* number of rebuilds so far (stands for fresh entity ids)
    load_result,   \* outcome of the latest update_mesh run
    vertices,      \* input of the function applied: vertex positions
    indices,       \* input: flat triangle index list
    normals,       \* input: per-vertex normals
    tile_size,     \* input: tile edge length
    angle,         \* input: walkable_slope_angle
    obj,           \* input: the parsed ObjData
    tiles,         \* output of split_mesh_into_tiles
    colors,        \* output of calculate_colors
    ci,            \* calculate_colors: number of chunks processed so far
    pc,            \* position of the pure-function run
    request_age,   \* how long the oldest rebuild request not yet run has waited
    mitm_info,     \* MitmInfo of the MeshViewer: socket, curpos
    wire,          \* bytes the peer has sent that have not yet arrived
    sent,          \* the frames the peer has sent on this connection
    taken,         \* number of bytes try_read has consumed from the socket
    last_read,     \* what the latest try_read call did
    msg,           \* input of the JSON round trip: an ActorMessage
    json,          \* the JSON document serde_json::to_string produced
    back           \* the result of serde_json::from_str on it

vars == <<viewer, mesh_data, tile_entities, debug_mesh, commands, ran, gen,
          load_result, vertices, indices, normals, tile_size, angle, obj,
          tiles, colors, ci, pc, request_age, mitm_info, wire, sent, taken,
          last_read, msg, json, back>>

appVars == <<viewer, mesh_data, tile_entities, debug_mesh, commands, ran, gen,
             load_result, request_age>>

funVars == <<vertices, indices, normals, tile_size, angle, obj, tiles, colors,
             ci, pc>>

socketVars == <<mitm_info, wire, sent, taken, last_read>>

jsonVars == <<msg, json, back>>

netVars == <<socketVars, jsonVars>>

----------------------------------------------------------------------------
(* f32 arithmetic, fixed point *)

NaN == -1000000

Abs(a) == IF a < 0 THEN -a ELSE a

Sign(a) == IF a < 0 THEN -1 ELSE 1

Min2(a, b) == IF a < b THEN a ELSE b

Max2(a, b) == IF a > b THEN a ELSE b

FAdd(a, b) == IF a = NaN \/ b = NaN THEN NaN ELSE a + b

\* a / count for a float a and a positive integer count
FDiv(a, count) == IF a = NaN THEN NaN ELSE Sign(a) * (Abs(a) \div count)

\* a < b on floats: false when either side is NaN
FLt(a, b) == a # NaN /\ b # NaN /\ a < b

RECURSIVE Gcd(_, _)
Gcd(a, b) == IF b = 0 THEN a ELSE Gcd(b, a % b)

RECURSIVE IsqrtIn(_, _, _)
IsqrtIn(n, lo, hi) ==
    IF lo >= hi THEN lo
    ELSE LET mid == (lo + hi + 1) \div 2
         IN IF mid * mid <= n THEN IsqrtIn(n, mid, hi) ELSE IsqrtIn(n, lo, mid - 1)

\* floor of the square root of n, for 0 <= n <= 1000000
Isqrt(n) == IsqrtIn(n, 0, 1000)

Vec3(x, y, z) == <<x, y, z>>

ZERO == <<0, 0, 0>>

VecNaN == <<NaN, NaN, NaN>>

VSub(u, v) == <<u[1] - v[1], u[2] - v[2], u[3] - v[3]>>

VAdd(u, v) == <<FAdd(u[1], v[1]), FAdd(u[2], v[2]), FAdd(u[3], v[3])>>

VDiv(u, count) == <<FDiv(u[1], count), FDiv(u[2], count), FDiv(u[3], count)>>

CrossSwapped(a, b) ==
    <<a[3] * b[2] - a[2] * b[3],
      a[1] * b[3] - a[3] * b[1],
      a[2] * b[1] - a[1] * b[2]>>

\* glam Vec3::cross
Cross(a, b) ==
    <<a[2] * b[3] - a[3] * b[2],
      a[3] * b[1] - a[1] * b[3],
      a[1] * b[2] - a[2] * b[1]>>

\* One component of v / |v| in thousandths, n2 = |v|^2, |c| <= 1465.
UnitComp(c, n2) == Sign(c) * Isqrt(((c * c * 1000) \div n2) * 1000)

\* glam Vec3::normalize: v * (1 / |v|).  The zero vector gives 0 * inf = NaN
\* in every component.  The direction does not depend on the scale of v, so
\* v is first reduced by the gcd of its components to keep the squares small.
Normalize(v) ==
    IF v[1] = NaN \/ v[2] = NaN \/ v[3] = NaN THEN VecNaN
    ELSE IF v = ZERO THEN VecNaN
    ELSE LET g == Gcd(Gcd(Abs(v[1]), Abs(v[2])), Abs(v[3]))
             w == <<v[1] \div g, v[2] \div g, v[3] \div g>>
             n2 == w[1] * w[1] + w[2] * w[2] + w[3] * w[3]
         IN <<UnitComp(w[1], n2), UnitComp(w[2], n2), UnitComp(w[3], n2)>>

----------------------------------------------------------------------------
(* obj_loader: ObjData, load_obj, triangulate *)

\* ObjData.triangulate for one face: fan expansion from the face's first
\* vertex; a face with fewer than 3 vertices gives nothing.
FaceTriangles(face) ==
    IF Len(face) < 3 THEN <<>>
    ELSE [i \in 1..(Len(face) - 2) |-> <<face[1], face[i + 1], face[i + 2]>>]

RECURSIVE TriangulateFaces(_)
TriangulateFaces(faces) ==
    IF faces = <<>> THEN <<>>
    ELSE FaceTriangles(Head(faces)) \o TriangulateFaces(Tail(faces))

\* ObjData.triangulate: the triangles of all faces, in face order, as
\* triples of 1-based vertex indices.
triangulate(o) == TriangulateFaces(o.faces)

----------------------------------------------------------------------------
(* convert_obj_to_mesh_data *)

\* indices.chunks(3): the number of chunks and the k-th chunk (k from 0);
\* the last chunk is shorter than 3 when the length is no multiple of 3.
NumChunks(inds) == (Len(inds) + 2) \div 3

Chunk(inds, k) == SubSeq(inds, 3 * k + 1, Min2(3 * k + 3, Len(inds)))

RECURSIVE FlattenTriangles(_)
FlattenTriangles(tris) ==
    IF tris = <<>> THEN <<>>
    ELSE <<Head(tris)[1] - 1, Head(tris)[2] - 1, Head(tris)[3] - 1>>
         \o FlattenTriangles(Tail(tris))

\* normals[index] += normal; normal_counts[index] += 1, for one index
Accumulate(acc, index, normal) ==
    [normals |-> [acc.normals EXCEPT ![index + 1] = VAdd(@, normal)],
     counts |-> [acc.counts EXCEPT ![index + 1] = @ + 1]]

\* the face normal of one chunk, added to each of its 3 vertices in turn
AccumulateChunk(verts, chunk, acc) ==
    LET v0 == verts[chunk[1] + 1]
        v1 == verts[chunk[2] + 1]
        v2 == verts[chunk[3] + 1]
        normal == Normalize(Cross(VSub(v1, v0), VSub(v2, v0)))
    IN Accumulate(Accumulate(Accumulate(acc, chunk[1], normal), chunk[2], normal),
                  chunk[3], normal)

RECURSIVE AccumulateLoop(_, _, _, _)
AccumulateLoop(verts, inds, k, acc) ==
    IF k >= NumChunks(inds) THEN acc
    ELSE IF Len(Chunk(inds, k)) = 3
         THEN AccumulateLoop(verts, inds, k + 1, AccumulateChunk(verts, Chunk(inds, k), acc))
         ELSE AccumulateLoop(verts, inds, k + 1, acc)

AverageNormalsUnnormalized(acc) ==
    [i \in 1..Len(acc.normals) |->
        IF acc.counts[i] > 0
        THEN VDiv(acc.normals[i], acc.counts[i])
        ELSE acc.normals[i]]

\* the averaging pass: (normal / count).normalize() where count > 0
AverageNormals(acc) ==
    [i \in 1..Len(acc.normals) |->
        IF acc.counts[i] > 0
        THEN Normalize(VDiv(acc.normals[i], acc.counts[i]))
        ELSE acc.normals[i]]

convert_obj_to_mesh_data(o) ==
    LET verts == Tail(o.vertices)
        inds == FlattenTriangles(triangulate(o))
        acc0 == [normals |-> [i \in 1..Len(verts) |-> ZERO],
                 counts |-> [i \in 1..Len(verts) |-> 0]]
    IN [vertices |-> verts,
        indices |-> inds,
        normals |-> AverageNormals(AccumulateLoop(verts, inds, 0, acc0))]

----------------------------------------------------------------------------
(* split_mesh_into_tiles *)

TileOfTruncating(c, size) == Sign(c) * (Abs(c) \div size)

\* (c / tile_size).floor() as i32
TileOf(c, size) == c \div size

EmptyTile == [verts |-> <<>>, inds |-> <<>>, norms |-> <<>>]

CornersOnly(v0, v1, v2, size) ==
    {<<TileOf(v0[1], size), TileOf(v0[3], size)>>,
     <<TileOf(v1[1], size), TileOf(v1[3], size)>>,
     <<TileOf(v2[1], size), TileOf(v2[3], size)>>}

TileRangeHalfOpen(v0, v1, v2, size) ==
    LET tile_x0 == TileOf(v0[1], size)
        tile_z0 == TileOf(v0[3], size)
        tile_x1 == TileOf(v1[1], size)
        tile_z1 == TileOf(v1[3], size)
        tile_x2 == TileOf(v2[1], size)
        tile_z2 == TileOf(v2[3], size)
        min_tile_x == Min2(Min2(tile_x0, tile_x1), tile_x2)
        max_tile_x == Max2(Max2(tile_x0, tile_x1), tile_x2)
        min_tile_z == Min2(Min2(tile_z0, tile_z1), tile_z2)
        max_tile_z == Max2(Max2(tile_z0, tile_z1), tile_z2)
    IN (min_tile_x..(max_tile_x - 1)) \X (min_tile_z..(max_tile_z - 1))

\* the tiles min_tile_x..=max_tile_x by min_tile_z..=max_tile_z of a triangle
TileRange(v0, v1, v2, size) ==
    LET tile_x0 == TileOf(v0[1], size)
        tile_z0 == TileOf(v0[3], size)
        tile_x1 == TileOf(v1[1], size)
        tile_z1 == TileOf(v1[3], size)
        tile_x2 == TileOf(v2[1], size)
        tile_z2 == TileOf(v2[3], size)
        min_tile_x == Min2(Min2(tile_x0, tile_x1), tile_x2)
        max_tile_x == Max2(Max2(tile_x0, tile_x1), tile_x2)
        min_tile_z == Min2(Min2(tile_z0, tile_z1), tile_z2)
        max_tile_z == Max2(Max2(tile_z0, tile_z1), tile_z2)
    IN (min_tile_x..max_tile_x) \X (min_tile_z..max_tile_z)

PushOverwrite(entry, v0, v1, v2, n0, n1, n2) ==
    [verts |-> <<v0, v1, v2>>, inds |-> <<0, 1, 2>>, norms |-> <<n0, n1, n2>>]

PushSharedBase(entry, v0, v1, v2, n0, n1, n2) ==
    [verts |-> entry.verts \o <<v0, v1, v2>>,
     inds |-> entry.inds \o <<0, 1, 2>>,
     norms |-> entry.norms \o <<n0, n1, n2>>]

\* one copy of a triangle pushed onto a tile entry, indexed from base_index
PushTriangle(entry, v0, v1, v2, n0, n1, n2) ==
    LET base_index == Len(entry.verts)
    IN [verts |-> entry.verts \o <<v0, v1, v2>>,
        inds |-> entry.inds \o <<base_index, base_index + 1, base_index + 2>>,
        norms |-> entry.norms \o <<n0, n1, n2>>]

\* the body of the chunk loop for one complete triangle: every tile of the
\* range gets a copy (tile_map.entry(..).or_insert_with(..) makes the tile)
SplitTriangle(verts, norms, size, triangle, tile_map) ==
    LET v0 == verts[triangle[1] + 1]
        v1 == verts[triangle[2] + 1]
        v2 == verts[triangle[3] + 1]
        range == TileRange(v0, v1, v2, size)
    IN [key \in (DOMAIN tile_map) \cup range |->
          IF key \in range
          THEN PushTriangle(IF key \in DOMAIN tile_map THEN tile_map[key] ELSE EmptyTile,
                            v0, v1, v2,
                            norms[triangle[1] + 1], norms[triangle[2] + 1],
                            norms[triangle[3] + 1])
          ELSE tile_map[key]]

RECURSIVE SplitLoop(_, _, _, _, _, _)
SplitLoop(verts, inds, norms, size, k, tile_map) ==
    IF k >= NumChunks(inds) THEN tile_map
    ELSE IF Len(Chunk(inds, k)) # 3
         THEN SplitLoop(verts, inds, norms, size, k + 1, tile_map)
         ELSE SplitLoop(verts, inds, norms, size, k + 1,
                        SplitTriangle(verts, norms, size, Chunk(inds, k), tile_map))

\* The returned Vec lists the HashMap's entries in an unspecified order, each
\* key once: it is modelled as the map itself, from (tile_x, tile_z) to the
\* tile's (vertices, indices, normals).
split_mesh_into_tiles(verts, inds, norms, size) ==
    SplitLoop(verts, inds, norms, size, 0, <<>>)

----------------------------------------------------------------------------
(* calculate_colors *)

\* Colour channels are integers in units of 1 / (255 * 255 * 1000), in which
\* every value calculate_colors computes from a normal in thousandths is exact.
ColorOne == 255 * 255 * 1000

White == <<ColorOne, ColorOne, ColorOne, ColorOne>>

Deg(d) == d * 8388608

\* walkable_slope_angle.to_radians().cos() in thousandths, rounded up to the
\* next integer: for a normal.y that is a whole number of thousandths,
\* normal.y < cos holds exactly when it holds against the rounded-up value.
\* In f32 cos(90 degrees) is -4.371139e-8, which rounds up to 0.
CosThr(a) ==
    CASE a = Deg(0) -> 1000
      [] a = Deg(1) -> 1000
      [] a = Deg(1) + 1 -> 1000
      [] a = Deg(30) -> 867
      [] a = Deg(45) -> 708
      [] a = Deg(60) -> 500
      [] a = Deg(90) -> 0

\* brightness = (220.0 * (2.0 + normal.x + normal.y) / 4.0) / 255.0
Brightness(normal) ==
    IF normal[1] = NaN \/ normal[2] = NaN THEN NaN
    ELSE 55 * 255 * (2000 + normal[1] + normal[2])

Grey(normal) ==
    <<Brightness(normal), Brightness(normal), Brightness(normal), ColorOne>>

\* grey * (1 - t) + unwalkable * t with t = 64 / 255, unwalkable = (192, 128, 0) / 255
Lerp(normal) ==
    IF Brightness(normal) = NaN THEN <<NaN, NaN, NaN, ColorOne>>
    ELSE LET g == 55 * 191 * (2000 + normal[1] + normal[2])
         IN <<g + 192 * 64 * 1000, g + 128 * 64 * 1000, g, ColorOne>>

TriangleColorLe(normal, walkable_thr) ==
    IF normal[2] # NaN /\ normal[2] <= walkable_thr THEN Lerp(normal) ELSE Grey(normal)

\* let color = if normal.y < walkable_thr { lerp } else { grey }
TriangleColor(normal, walkable_thr) ==
    IF FLt(normal[2], walkable_thr) THEN Lerp(normal) ELSE Grey(normal)

ColorChunkLastNormal(cols, chunk, norms, walkable_thr) ==
    LET color == TriangleColor(norms[chunk[3] + 1], walkable_thr)
    IN [i \in 1..Len(cols) |->
          IF i - 1 \in {chunk[1], chunk[2], chunk[3]} THEN color ELSE cols[i]]

ColorChunkFirstWins(cols, chunk, norms, walkable_thr) ==
    LET normal == norms[chunk[1] + 1]
        color == TriangleColor(normal, walkable_thr)
    IN [i \in 1..Len(cols) |->
          IF i - 1 \in {chunk[1], chunk[2], chunk[3]} /\ cols[i] = White
          THEN color ELSE cols[i]]

\* the loop body for one complete chunk: the colour of the normal at the
\* chunk's first index, written to colors[index] for each index of the chunk
ColorChunk(cols, chunk, norms, walkable_thr) ==
    LET normal == norms[chunk[1] + 1]
        color == TriangleColor(normal, walkable_thr)
    IN [i \in 1..Len(cols) |->
          IF i - 1 \in {chunk[1], chunk[2], chunk[3]} THEN color ELSE cols[i]]

\* one iteration of `for chunk in indices.chunks(3)`
ColorStep(cols, inds, norms, walkable_thr, k) ==
    IF Len(Chunk(inds, k)) = 3
    THEN ColorChunk(cols, Chunk(inds, k), norms, walkable_thr)
    ELSE cols

RECURSIVE ColorLoop(_, _, _, _, _)
ColorLoop(cols, inds, norms, walkable_thr, k) ==
    IF k >= NumChunks(inds) THEN cols
    ELSE ColorLoop(ColorStep(cols, inds, norms, walkable_thr, k), inds, norms,
                   walkable_thr, k + 1)

InitialColors(verts) == [i \in 1..Len(verts) |-> White]

calculate_colors(verts, inds, norms, walkable_slope_angle) ==
    ColorLoop(InitialColors(verts), inds, norms, CosThr(walkable_slope_angle), 0)

----------------------------------------------------------------------------
(* The files the user can pick, and obj_loader::load_obj *)

NoPath == "none"

\* the quad of four vertices and one face "f 1 2 3 4"; slot 0 is reserved
QuadObj ==
    [vertices |-> <<ZERO, Vec3(0, 0, 0), Vec3(1, 0, 0), Vec3(1, 0, 1), Vec3(0, 0, 1)>>,
     faces |-> << <<1, 2, 3, 4>> >>]

\* a slope and a flat triangle sharing an edge, larger than one tile of 988
TerrainObj ==
    [vertices |-> <<ZERO, Vec3(0, 0, 0), Vec3(0, 3, 4), Vec3(1000, 0, 0),
                    Vec3(0, 0, 2000)>>,
     faces |-> << <<1, 2, 3>>, <<1, 4, 3>> >>]

\* vertices only, and a face too short to triangulate
PointsObj ==
    [vertices |-> <<ZERO, Vec3(0, 0, 0), Vec3(5, 0, 5)>>,
     faces |-> << <<1, 2>> >>]

Paths == {"quad.obj", "terrain.obj", "points.obj", "bad.obj"}

\* load_obj(path): Ok(ObjData) or Err(ParseError) for a file that is missing,
\* has a malformed number or a face index out of range
load_obj(path) ==
    CASE path = "quad.obj" -> [ok |-> TRUE, data |-> QuadObj]
      [] path = "terrain.obj" -> [ok |-> TRUE, data |-> TerrainObj]
      [] path = "points.obj" -> [ok |-> TRUE, data |-> PointsObj]
      [] path = "bad.obj" -> [ok |-> FALSE, data |-> <<>>]

----------------------------------------------------------------------------
(* The application: setup, ui_system, update_mesh, the end of a frame *)

\* bound: the number of rebuilds the user requests in one run
MaxRebuilds == 2

\* f32::EPSILON in angle units
EPSILON == 1

\* the slider positions the user can reach; Deg(1) + 1 is the f32 next
\* above 1.0, exactly f32::EPSILON away from it
SliderAngles == {Deg(0), Deg(1), Deg(1) + 1, Deg(45), Deg(90)}

\* let tile_size = 988.0 in update_mesh, tile_size: 988. in setup
TILE_SIZE == 988

DefaultVertices ==
    <<Vec3(1, 0, 1), Vec3(987, 0, 1), Vec3(987, 0, 987), Vec3(1, 0, 987)>>

DefaultIndices == <<0, 1, 2, 0, 2, 3>>

DefaultNormals ==
    LET v == DefaultVertices
        normal1 == Normalize(Cross(VSub(v[2], v[1]), VSub(v[3], v[1])))
        normal2 == Normalize(Cross(VSub(v[3], v[1]), VSub(v[4], v[1])))
    IN <<normal1, normal1, normal1, normal2, normal2, normal2>>

\* the state setup's commands leave: the DebugMesh entity with the default
\* mesh coloured at 45 degrees, the MeshViewer and the MeshData resource
setup ==
    /\ debug_mesh = [positions |-> DefaultVertices,
                     normals |-> DefaultNormals,
                     colors |-> calculate_colors(DefaultVertices, DefaultIndices,
                                                 DefaultNormals, Deg(45)),
                     indices |-> DefaultIndices]
    /\ viewer = [obj_path |-> NoPath,
                 walkable_slope_angle |-> Deg(45),
                 needs_update |-> FALSE]
    /\ mesh_data = [vertices |-> DefaultVertices,
                    indices |-> DefaultIndices,
                    normals |-> DefaultNormals,
                    tile_size |-> TILE_SIZE]
    /\ tile_entities = {}

NoCommands == [despawn |-> {}, spawn |-> {}, insert |-> <<>>]

\* MitmInfo { socket: None, curpos: None } and nothing on the network
NoRead == [outcome |-> "none", consumed |-> <<>>, text |-> <<>>, message |-> <<>>]

IdleSocket ==
    /\ mitm_info = [socket |-> <<>>, curpos |-> <<>>]
    /\ wire = <<>>
    /\ sent = <<>>
    /\ taken = 0
    /\ last_read = NoRead

IdleJson ==
    /\ msg = <<>>
    /\ json = <<>>
    /\ back = <<>>

IdleNet == IdleSocket /\ IdleJson

IdleFun ==
    /\ vertices = <<>>
    /\ indices = <<>>
    /\ normals = <<>>
    /\ tile_size = TILE_SIZE
    /\ angle = Deg(45)
    /\ obj = PointsObj
    /\ tiles = <<>>
    /\ colors = <<>>
    /\ ci = 0
    /\ pc = "app"

Init ==
    /\ setup
    /\ commands = NoCommands
    /\ ran = {}
    /\ gen = 0
    /\ load_result = "none"
    /\ request_age = "none"
    /\ IdleFun
    /\ IdleNet

\* if (viewer.walkable_slope_angle - prev_angle).abs() > f32::EPSILON
AngleChanged(prev_angle, new_angle) == Abs(new_angle - prev_angle) > EPSILON

ui_system_FlagOverwritten(pick, new_angle) ==
    /\ "ui_system" \notin ran
    /\ LET prev_angle == viewer.walkable_slope_angle
           request == pick # NoPath \/ AngleChanged(prev_angle, new_angle)
       IN /\ request =>
                gen + (IF viewer.needs_update THEN 1 ELSE 0) < MaxRebuilds
          /\ viewer' = [obj_path |-> IF pick # NoPath THEN pick ELSE viewer.obj_path,
                        walkable_slope_angle |-> new_angle,
                        needs_update |-> request]
          /\ request_age' = IF request /\ request_age = "none"
                            THEN "this frame" ELSE request_age
    /\ ran' = ran \cup {"ui_system"}
    /\ UNCHANGED <<mesh_data, tile_entities, debug_mesh, commands, gen, load_result>>
    /\ UNCHANGED funVars
    /\ UNCHANGED netVars

\* ui_system, the "Mesh Viewer Controls" window: pick is the file chosen in
\* the dialog (NoPath: button not clicked or dialog cancelled), new_angle the
\* slider's value after this frame's input.
ui_system(pick, new_angle) ==
    /\ "ui_system" \notin ran
    /\ LET prev_angle == viewer.walkable_slope_angle
           request == pick # NoPath \/ AngleChanged(prev_angle, new_angle)
       IN /\ request =>
                gen + (IF viewer.needs_update THEN 1 ELSE 0) < MaxRebuilds
          /\ viewer' = [obj_path |-> IF pick # NoPath THEN pick ELSE viewer.obj_path,
                        walkable_slope_angle |-> new_angle,
                        needs_update |-> viewer.needs_update \/ request]
          /\ request_age' = IF request /\ request_age = "none"
                            THEN "this frame" ELSE request_age
    /\ ran' = ran \cup {"ui_system"}
    /\ UNCHANGED <<mesh_data, tile_entities, debug_mesh, commands, gen, load_result>>
    /\ UNCHANGED funVars
    /\ UNCHANGED netVars

\* the entities update_mesh spawns for a loaded mesh: one per tile, with the
\* tile's colours at the viewer's current angle
TileEntities(mesh, walkable_slope_angle, id) ==
    LET tile_map == split_mesh_into_tiles(mesh.vertices, mesh.indices, mesh.normals,
                                          TILE_SIZE)
    IN {[tile_x |-> key[1],
         tile_y |-> key[2],
         id |-> id,
         mesh |-> [positions |-> tile_map[key].verts,
                   normals |-> tile_map[key].norms,
                   colors |-> calculate_colors(tile_map[key].verts, tile_map[key].inds,
                                               tile_map[key].norms, walkable_slope_angle),
                   indices |-> tile_map[key].inds]] : key \in DOMAIN tile_map}

update_mesh_ResetOnSuccess ==
    /\ "update_mesh" \notin ran
    /\ ran' = ran \cup {"update_mesh"}
    /\ IF ~viewer.needs_update
       THEN /\ load_result' = "skipped"
            /\ UNCHANGED <<viewer, commands, gen, request_age>>
       ELSE /\ viewer' = [viewer EXCEPT !.needs_update =
                                 viewer.obj_path = NoPath \/ ~load_obj(viewer.obj_path).ok]
            /\ gen' = gen + 1
            /\ request_age' = "none"
            /\ IF viewer.obj_path = NoPath
               THEN /\ commands' = [NoCommands EXCEPT !.despawn = tile_entities]
                    /\ load_result' = "nopath"
               ELSE IF load_obj(viewer.obj_path).ok
               THEN LET mesh == convert_obj_to_mesh_data(load_obj(viewer.obj_path).data)
                    IN /\ commands' =
                            [despawn |-> tile_entities,
                             spawn |-> TileEntities(mesh, viewer.walkable_slope_angle,
                                                    gen + 1),
                             insert |-> <<[vertices |-> mesh.vertices,
                                           indices |-> mesh.indices,
                                           normals |-> mesh.normals,
                                           tile_size |-> TILE_SIZE]>>]
                       /\ load_result' = "ok"
               ELSE /\ commands' = [NoCommands EXCEPT !.despawn = tile_entities]
                    /\ load_result' = "err"
    /\ UNCHANGED <<mesh_data, tile_entities, debug_mesh>>
    /\ UNCHANGED funVars
    /\ UNCHANGED netVars

update_mesh ==
    /\ "update_mesh" \notin ran
    /\ ran' = ran \cup {"update_mesh"}
    /\ IF ~viewer.needs_update
       THEN /\ load_result' = "skipped"
            /\ UNCHANGED <<viewer, commands, gen, request_age>>
       ELSE /\ viewer' = [viewer EXCEPT !.needs_update = FALSE]
            /\ gen' = gen + 1
            /\ request_age' = "none"
            /\ IF viewer.obj_path = NoPath
               THEN /\ commands' = [NoCommands EXCEPT !.despawn = tile_entities]
                    /\ load_result' = "nopath"
               ELSE IF load_obj(viewer.obj_path).ok
               THEN LET mesh == convert_obj_to_mesh_data(load_obj(viewer.obj_path).data)
                    IN /\ commands' =
                            [despawn |-> tile_entities,
                             spawn |-> TileEntities(mesh, viewer.walkable_slope_angle,
                                                    gen + 1),
                             insert |-> <<[vertices |-> mesh.vertices,
                                           indices |-> mesh.indices,
                                           normals |-> mesh.normals,
                                           tile_size |-> TILE_SIZE]>>]
                       /\ load_result' = "ok"
               ELSE /\ commands' = [NoCommands EXCEPT !.despawn = tile_entities]
                    /\ load_result' = "err"
    /\ UNCHANGED <<mesh_data, tile_entities, debug_mesh>>
    /\ UNCHANGED funVars
    /\ UNCHANGED netVars

\* a request that sees a frame end without having been run grows older
Older(age) ==
    CASE age = "none" -> "none"
      [] age = "this frame" -> "last frame"
      [] age = "last frame" -> "overdue"
      [] age = "overdue" -> "overdue"

\* The end of the Update schedule: the queued commands are applied in queue
\* order (despawns, spawns, insert_resource) and the next frame begins.
apply_deferred ==
    /\ ran = {"ui_system", "update_mesh"}
    /\ tile_entities' = (tile_entities \ commands.despawn) \cup commands.spawn
    /\ mesh_data' = IF commands.insert = <<>> THEN mesh_data ELSE commands.insert[1]
    /\ commands' = NoCommands
    /\ ran' = {}
    /\ request_age' = Older(request_age)
    /\ UNCHANGED <<viewer, debug_mesh, gen, load_result>>
    /\ UNCHANGED funVars
    /\ UNCHANGED netVars

Next ==
    \/ \E pick \in Paths \cup {NoPath}, new_angle \in SliderAngles :
          ui_system(pick, new_angle)
    \/ update_mesh
    \/ apply_deferred

Spec == Init /\ [][Next]_vars

----------------------------------------------------------------------------
(* split_mesh_into_tiles on its own: inputs drawn from bounded sets *)

IdleApp ==
    /\ setup
    /\ commands = NoCommands
    /\ ran = {}
    /\ gen = 0
    /\ load_result = "none"
    /\ request_age = "none"

\* corner positions: negative and positive, inside one cell and cells apart
SplitXs == {-1, 0, 1, 4}

SplitZs == {-1, 0, 3}

SplitPoints == {Vec3(x, 0, z) : x \in SplitXs, z \in SplitZs}

SplitTileSizes == {2, 3}

\* one, two and no complete triangle; the third list ends in an incomplete chunk
SplitIndexLists ==
    {<<0, 1, 2>>, <<0, 1, 2, 1, 2, 3>>, <<0, 1, 3, 2, 1, 0, 2>>, <<1, 2>>}

\* a different normal for each vertex, so that a copied normal names its vertex
SplitNormals ==
    <<Vec3(0, 1000, 0), Vec3(1000, 0, 0), Vec3(0, 0, 1000), Vec3(0, -1000, 0)>>

InitSplit ==
    /\ IdleApp
    /\ IdleNet
    /\ \E p0 \in SplitPoints, p1 \in SplitPoints :
         \E p2 \in {Vec3(-1, 0, -1), Vec3(0, 0, 0), Vec3(4, 0, 0), Vec3(1, 0, 3)} :
            \E p3 \in {Vec3(0, 0, 0), Vec3(4, 0, 3)} :
               vertices = <<p0, p1, p2, p3>>
    /\ indices \in SplitIndexLists
    /\ normals = SplitNormals
    /\ tile_size \in SplitTileSizes
    /\ angle = Deg(45)
    /\ obj = PointsObj
    /\ tiles = <<>>
    /\ colors = <<>>
    /\ ci = 0
    /\ pc = "split"

SplitCall ==
    /\ pc = "split"
    /\ tiles' = split_mesh_into_tiles(vertices, indices, normals, tile_size)
    /\ pc' = "done"
    /\ UNCHANGED <<vertices, indices, normals, tile_size, angle, obj, colors, ci>>
    /\ UNCHANGED appVars
    /\ UNCHANGED netVars

NextSplit == SplitCall

SpecSplit == InitSplit /\ [][NextSplit]_vars

\* What the properties of the split speak about, read off the input.
TriCount == Len(indices) \div 3

TriCorner(j, c) == indices[3 * (j - 1) + c]

TriVertex(j, c) == vertices[TriCorner(j, c) + 1]

TriNormal(j, c) == normals[TriCorner(j, c) + 1]

\* floor(a / b) for b > 0, stated by its defining inequality
Floor(a, b) == CHOOSE q \in -3..3 : q * b <= a /\ a < (q + 1) * b

CornerTile(j, c) ==
    <<Floor(TriVertex(j, c)[1], tile_size), Floor(TriVertex(j, c)[3], tile_size)>>

\* the tile coordinates of the three corners of triangle j
CornerTileSeq(j) == <<CornerTile(j, 1), CornerTile(j, 2), CornerTile(j, 3)>>

CornerTiles(j) == {CornerTile(j, 1), CornerTile(j, 2), CornerTile(j, 3)}

\* every tile coordinate a corner of the inputs can have, and a margin
AllKeys == (-3..3) \X (-2..2)

\* key lies in the bounding rectangle of the corner tiles ct
RectHas(ct, key) ==
    /\ \E c \in 1..3 : ct[c][1] <= key[1]
    /\ \E c \in 1..3 : ct[c][1] >= key[1]
    /\ \E c \in 1..3 : ct[c][2] <= key[2]
    /\ \E c \in 1..3 : ct[c][2] >= key[2]

InRect(j, key) == RectHas(CornerTileSeq(j), key)

\* tile key holds, in some slot m (from 0), the three corners of triangle j
\* with their normals, in the triangle's winding order
HasCopyAt(key, j, m) ==
    /\ key \in DOMAIN tiles
    /\ 3 * m + 3 <= Len(tiles[key].verts)
    /\ 3 * m + 3 <= Len(tiles[key].norms)
    /\ \A c \in 1..3 :
          /\ tiles[key].verts[3 * m + c] = TriVertex(j, c)
          /\ tiles[key].norms[3 * m + c] = TriNormal(j, c)

HasCopy(key, j) == \E m \in 0..TriCount : HasCopyAt(key, j, m)

\* C1: after the split, every input triangle has a copy in exactly the tiles
\* of the bounding rectangle of its three corners' tile coordinates, where a
\* corner's coordinate is the floor of x / tile_size and of z / tile_size.
C1_CopyInExactlyTheRectangle ==
    pc = "done" =>
        \A j \in 1..TriCount :
            LET ct == CornerTileSeq(j)
            IN \A key \in AllKeys : HasCopy(key, j) <=> RectHas(ct, key)

\* a triangle with a corner at negative x and corners in three different tiles
C1_Witness ==
    /\ pc = "done"
    /\ TriCount >= 1
    /\ Cardinality(CornerTiles(1)) = 3
    /\ \E c \in 1..3 : TriVertex(1, c)[1] < 0
    /\ \A key \in AllKeys : InRect(1, key) => HasCopy(key, 1)

\* An edge of triangle j passes through tile key: two corners lie in key's
\* row of tiles on either side of key (the edge stays in the row and its x
\* runs through key's cell), or likewise in key's column.
\* It is stated on the corner tiles ct of the triangle.
EdgeCrossesOf(ct, key) ==
    \E a \in 1..3, b \in 1..3 :
        \/ /\ ct[a][2] = key[2]
           /\ ct[b][2] = key[2]
           /\ ct[a][1] < key[1]
           /\ key[1] < ct[b][1]
        \/ /\ ct[a][1] = key[1]
           /\ ct[b][1] = key[1]
           /\ ct[a][2] < key[2]
           /\ key[2] < ct[b][2]

EdgeCrosses(j, key) == EdgeCrossesOf(CornerTileSeq(j), key)

\* key holds no corner of the triangle with corner tiles ct
NoCornerIn(ct, key) == \A c \in 1..3 : ct[c] # key

\* C4 as stated: a tile that an edge of a triangle crosses and that holds
\* none of the triangle's corners does not receive the triangle.
C4_AsClaimed ==
    pc = "done" =>
        \A j \in 1..TriCount :
            LET ct == CornerTileSeq(j)
            IN \A key \in AllKeys :
                  (EdgeCrossesOf(ct, key) /\ NoCornerIn(ct, key)) => ~HasCopy(key, j)

\* C4 (amended): a tile that an edge of a triangle crosses and that holds
\* none of the triangle's corners receives a copy of the triangle all the
\* same, because it lies in the bounding rectangle of the corners' tiles.
C4_CrossedTileGetsCopy ==
    pc = "done" =>
        \A j \in 1..TriCount :
            LET ct == CornerTileSeq(j)
            IN \A key \in AllKeys :
                  (EdgeCrossesOf(ct, key) /\ NoCornerIn(ct, key)) => HasCopy(key, j)

\* corners in tiles (0,0) and (2,0) only, and the copy in tile (1,0)
C4_Witness ==
    /\ pc = "done"
    /\ TriCount >= 1
    /\ CornerTiles(1) = {<<0, 0>>, <<2, 0>>}
    /\ EdgeCrosses(1, <<1, 0>>)
    /\ HasCopy(<<1, 0>>, 1)

\* the cell that holds every vertex of the input, if there is one
VertexTile(i) == <<Floor(vertices[i][1], tile_size), Floor(vertices[i][3], tile_size)>>

AllInCell(cell) == \A i \in 1..Len(vertices) : VertexTile(i) = cell

\* tile cell is the only tile and holds every source triangle once, in order
OnlyTileWithAll(cell) ==
    /\ DOMAIN tiles = {cell}
    /\ Len(tiles[cell].verts) = 3 * TriCount
    /\ Len(tiles[cell].inds) = 3 * TriCount
    /\ Len(tiles[cell].norms) = 3 * TriCount
    /\ \A j \in 1..TriCount : HasCopyAt(cell, j, j - 1)

RECURSIVE CopiedUpTo(_, _)
CopiedUpTo(key, j) ==
    IF j = 0 THEN <<>>
    ELSE IF InRect(j, key) THEN Append(CopiedUpTo(key, j - 1), j)
         ELSE CopiedUpTo(key, j - 1)

Copied(key) == CopiedUpTo(key, TriCount)

\* C6: every returned tile is self-contained and indexed from zero: with k
\* triangle copies its vertices, indices and normals have length 3k, its
\* indices are 0, 1, ..., 3k-1, and slots 3m..3m+2 hold the corners and
\* normals of the m-th copied source triangle in the source winding order.
C6_TilesSelfContained ==
    pc = "done" =>
        \A key \in DOMAIN tiles :
            LET k == Len(Copied(key))
            IN /\ k >= 1
               /\ Len(tiles[key].verts) = 3 * k
               /\ Len(tiles[key].inds) = 3 * k
               /\ Len(tiles[key].norms) = 3 * k
               /\ \A i \in 1..(3 * k) : tiles[key].inds[i] = i - 1
               /\ \A m \in 1..k : HasCopyAt(key, Copied(key)[m], m - 1)

\* a tile that holds two copies, while another tile holds only one of them
C6_Witness ==
    /\ pc = "done"
    /\ \E key \in DOMAIN tiles, other \in DOMAIN tiles :
          /\ Len(tiles[key].inds) = 6
          /\ tiles[key].inds[4] = 3
          /\ Len(tiles[other].inds) = 3
          /\ Copied(other) = <<2>>

----------------------------------------------------------------------------
(* calculate_colors on its own, one loop iteration per step *)

\* up, a 37 degree slope, sideways (y = 0), down, NaN (from a zero-area
\* triangle) and the zero vector (a vertex no triangle references)
ColorNormals ==
    {Vec3(0, 1000, 0), Vec3(0, 800, -600), Vec3(1000, 0, 0), Vec3(0, -1000, 0),
     VecNaN, ZERO}

ColorAngles == {Deg(0), Deg(30), Deg(45), Deg(60), Deg(90)}

\* one and two triangles that share vertices; the third list ends in an
\* incomplete chunk, the fourth has no complete chunk and the last leaves
\* vertex 2 unreferenced
ColorIndexLists ==
    {<<0, 1, 2>>, <<0, 1, 2, 2, 1, 0>>, <<1, 2, 0, 0, 1>>, <<2, 0>>,
     <<0, 1, 1, 1, 0, 0>>}

InitColors ==
    /\ IdleApp
    /\ IdleNet
    /\ vertices = <<Vec3(0, 0, 0), Vec3(1, 0, 0), Vec3(0, 0, 1)>>
    /\ indices \in ColorIndexLists
    /\ \E n0 \in ColorNormals, n1 \in ColorNormals, n2 \in ColorNormals :
          normals = <<n0, n1, n2>>
    /\ tile_size = TILE_SIZE
    /\ angle \in ColorAngles
    /\ obj = PointsObj
    /\ tiles = <<>>
    /\ colors = InitialColors(vertices)
    /\ ci = 0
    /\ pc = "colors"

\* one iteration of the chunk loop
ColorsIterate ==
    /\ pc = "colors"
    /\ ci < NumChunks(indices)
    /\ colors' = ColorStep(colors, indices, normals, CosThr(angle), ci)
    /\ ci' = ci + 1
    /\ UNCHANGED <<vertices, indices, normals, tile_size, angle, obj, tiles, pc>>
    /\ UNCHANGED appVars
    /\ UNCHANGED netVars

\* the loop is over: colors is returned
ColorsReturn ==
    /\ pc = "colors"
    /\ ci >= NumChunks(indices)
    /\ pc' = "done"
    /\ UNCHANGED <<vertices, indices, normals, tile_size, angle, obj, tiles, colors, ci>>
    /\ UNCHANGED appVars
    /\ UNCHANGED netVars

NextColors == ColorsIterate \/ ColorsReturn

SpecColors == InitColors /\ [][NextColors]_vars

\* the chunk the loop has just processed, when it is a complete triangle
JustColored == ci >= 1 /\ 3 * ci <= Len(indices)

LastCorner(c) == indices[3 * (ci - 1) + c]

RepresentativeNormal == normals[LastCorner(1) + 1]

\* normal.y < cos(angle), on thousandths; false for a NaN normal
BelowThreshold(n, a) == n[2] # NaN /\ n[2] < CosThr(a)

\* C7: right after the loop has processed a complete triangle, all 3 of its
\* vertices carry one colour, fixed by the normal at the triangle's first
\* index alone: the tinted blend if and only if that normal's y is strictly
\* below cos(angle), plain grey otherwise.
C7_ColourFromFirstNormal ==
    (pc = "colors" /\ JustColored) =>
        LET expected == IF BelowThreshold(RepresentativeNormal, angle)
                        THEN Lerp(RepresentativeNormal)
                        ELSE Grey(RepresentativeNormal)
        IN \A c \in 1..3 : colors[LastCorner(c) + 1] = expected

\* a triangle whose first normal is walkable at 45 degrees and whose other
\* two are not, coloured plain grey
C7_Witness ==
    /\ pc = "colors"
    /\ JustColored
    /\ angle = Deg(45)
    /\ RepresentativeNormal = Vec3(0, 1000, 0)
    /\ normals[LastCorner(2) + 1] = Vec3(0, -1000, 0)
    /\ normals[LastCorner(3) + 1] = Vec3(1000, 0, 0)
    /\ colors[LastCorner(3) + 1] = Grey(Vec3(0, 1000, 0))

\* C8: at 0 degrees a triangle whose representative normal has y < 1 is
\* tinted; at 90 degrees a triangle whose representative normal has y >= 0
\* is plain grey.
C8_ThresholdExtremes ==
    (pc = "colors" /\ JustColored) =>
        LET n == RepresentativeNormal
        IN /\ (angle = Deg(0) /\ n[2] # NaN /\ n[2] < 1000) =>
                 \A c \in 1..3 : colors[LastCorner(c) + 1] = Lerp(n)
           /\ (angle = Deg(90) /\ n[2] # NaN /\ n[2] >= 0) =>
                 \A c \in 1..3 : colors[LastCorner(c) + 1] = Grey(n)

\* at 90 degrees a sideways normal (y = 0) has just been coloured grey
C8_Witness ==
    /\ pc = "colors"
    /\ JustColored
    /\ angle = Deg(90)
    /\ RepresentativeNormal = Vec3(1000, 0, 0)
    /\ colors[LastCorner(1) + 1] = Grey(Vec3(1000, 0, 0))
    /\ Grey(Vec3(1000, 0, 0)) # Lerp(Vec3(1000, 0, 0))

----------------------------------------------------------------------------
(* The pipeline of update_mesh on its own: convert, split, colour *)

\* a unit quad with corner heights h1..h4 and the given faces
HeightQuad(h1, h2, h3, h4, faces) ==
    [vertices |-> <<ZERO, Vec3(0, h1, 0), Vec3(1, h2, 0), Vec3(1, h3, 1), Vec3(0, h4, 1)>>,
     faces |-> faces]

\* the quad as one face in either winding, one triangle only, and a triangle
\* next to a zero-area one
PipelineFaces ==
    {<< <<1, 2, 3, 4>> >>, << <<4, 3, 2, 1>> >>, << <<1, 2, 3>>, <<1, 2>> >>,
     << <<1, 3, 2>>, <<1, 1, 4>> >>}

PipelineObjs ==
    {HeightQuad(h1, h2, h3, h4, faces) :
        h1 \in {0, 1}, h2 \in {0, 1}, h3 \in {0, 1}, h4 \in {0, 1},
        faces \in PipelineFaces}
    \cup {TerrainObj, PointsObj}

InitPipeline ==
    /\ IdleApp
    /\ IdleNet
    /\ obj \in PipelineObjs
    /\ angle \in ColorAngles
    /\ vertices = <<>>
    /\ indices = <<>>
    /\ normals = <<>>
    /\ tile_size = TILE_SIZE
    /\ tiles = <<>>
    /\ colors = <<>>
    /\ ci = 0
    /\ pc = "convert"

\* let (vertices, indices, normals) = convert_obj_to_mesh_data(&obj_data)
PipeConvert ==
    /\ pc = "convert"
    /\ LET mesh == convert_obj_to_mesh_data(obj)
       IN /\ vertices' = mesh.vertices
          /\ indices' = mesh.indices
          /\ normals' = mesh.normals
    /\ pc' = "split"
    /\ UNCHANGED <<tile_size, angle, obj, tiles, colors, ci>>
    /\ UNCHANGED appVars
    /\ UNCHANGED netVars

\* let tiles = split_mesh_into_tiles(&vertices, &indices, &normals, tile_size)
PipeSplit ==
    /\ pc = "split"
    /\ tiles' = split_mesh_into_tiles(vertices, indices, normals, tile_size)
    /\ pc' = "color"
    /\ UNCHANGED <<vertices, indices, normals, tile_size, angle, obj, colors, ci>>
    /\ UNCHANGED appVars
    /\ UNCHANGED netVars

\* calculate_colors for each tile
PipeColor ==
    /\ pc = "color"
    /\ colors' = [key \in DOMAIN tiles |->
                     calculate_colors(tiles[key].verts, tiles[key].inds,
                                      tiles[key].norms, angle)]
    /\ pc' = "done"
    /\ UNCHANGED <<vertices, indices, normals, tile_size, angle, obj, tiles, ci>>
    /\ UNCHANGED appVars
    /\ UNCHANGED netVars

NextPipeline == PipeConvert \/ PipeSplit \/ PipeColor

SpecPipeline == InitPipeline /\ [][NextPipeline]_vars

\* a colour with equal red, green and blue and full alpha
PureGrey(color) ==
    /\ color[1] = color[2]
    /\ color[2] = color[3]
    /\ color[4] = ColorOne

QuadAt45Done == pc = "done" /\ obj = QuadObj /\ angle = Deg(45)

\* C3 as stated: the quad gives the triangles (0,1,2) and (0,2,3), every
\* vertex normal is (0,1,0), and at 45 degrees every output vertex is grey.
C3_AsClaimed ==
    QuadAt45Done =>
        /\ indices = <<0, 1, 2, 0, 2, 3>>
        /\ \A i \in 1..Len(normals) : normals[i] = Vec3(0, 1000, 0)
        /\ \A key \in DOMAIN colors : \A i \in 1..Len(colors[key]) :
              PureGrey(colors[key][i])

\* C3 (amended): the quad gives the triangles (0,1,2) and (0,2,3), every
\* vertex normal is (0,-1,0) (the face winds clockwise seen from above), and
\* at 45 degrees every output vertex receives the unwalkable tint, none is
\* pure grey.
C3_QuadFacesDownTinted ==
    QuadAt45Done =>
        /\ indices = <<0, 1, 2, 0, 2, 3>>
        /\ \A i \in 1..Len(normals) : normals[i] = Vec3(0, -1000, 0)
        /\ \A key \in DOMAIN colors : \A i \in 1..Len(colors[key]) :
              /\ ~PureGrey(colors[key][i])
              /\ colors[key][i] = <<55 * 191 * 1000 + 192 * 64 * 1000,
                                    55 * 191 * 1000 + 128 * 64 * 1000,
                                    55 * 191 * 1000,
                                    ColorOne>>

\* the quad went through the pipeline: one tile at (0,0) with 6 coloured vertices
C3_Witness ==
    /\ QuadAt45Done
    /\ Len(vertices) = 4
    /\ DOMAIN colors = {<<0, 0>>}
    /\ Len(colors[<<0, 0>>]) = 6

----------------------------------------------------------------------------
(* Properties of the frame loop *)

\* the step that ends a frame: the queued commands take effect
FrameEnd == ran = {"ui_system", "update_mesh"} /\ ran' = {}

\* C2: a failed load is all-or-nothing: when a rebuild runs while tiles are
\* displayed and load_obj returns an error, the TileMesh entities and the
\* MeshData resource are, once the run's commands have taken effect, the
\* same as before.
C2_AsClaimed ==
    [][(FrameEnd /\ load_result = "err" /\ tile_entities # {}) =>
           (tile_entities' = tile_entities /\ mesh_data' = mesh_data)]_vars

\* C9: each rebuild replaces the displayed tiles as a whole: a run that
\* retires the existing tiles is a run that built the tiles of a new load and
\* spawns them, so no frame ends with the old tiles retired and nothing put
\* in their place, and after a successful rebuild the displayed tiles are
\* exactly those of the new load.
C9_AsClaimed ==
    [][FrameEnd =>
          /\ (tile_entities # {} /\ commands.despawn = tile_entities) =>
                 load_result = "ok"
          /\ load_result = "ok" => tile_entities' = commands.spawn]_vars

\* the colours of a displayed mesh are those of its data at angle a
ColouredAt(mesh, a) ==
    mesh.colors = calculate_colors(mesh.positions, mesh.indices, mesh.normals, a)

\* C10: colours follow the threshold: every change of the slope angle in
\* ui_system sets needs_update, and once update_mesh has run on the request
\* (the frame is over and no request is pending) every displayed mesh, the
\* tiles and the default mesh, has the colours of the current angle.
C10_AsClaimed ==
    [][/\ viewer'.walkable_slope_angle # viewer.walkable_slope_angle =>
              viewer'.needs_update
       /\ (FrameEnd /\ ~viewer.needs_update) =>
              /\ ColouredAt(debug_mesh', viewer'.walkable_slope_angle)
              /\ \A e \in tile_entities' :
                    ColouredAt(e.mesh, viewer'.walkable_slope_angle)]_vars

----------------------------------------------------------------------------
(* Well-formedness of the MeshData resource *)

\* C11: in every reachable state the MeshData resource is well formed: the
\* length of its indices is a multiple of 3, every index is a valid position
\* in its vertices, and its normals have the same length as its vertices.
C11_AsClaimed ==
    /\ Len(mesh_data.indices) % 3 = 0
    /\ \A i \in 1..Len(mesh_data.indices) :
          mesh_data.indices[i] \in 0..(Len(mesh_data.vertices) - 1)
    /\ Len(mesh_data.normals) = Len(mesh_data.vertices)

----------------------------------------------------------------------------
(* Vertex normals of a converted mesh *)

\* the unit face normal of triangle j (from 0) of the converted mesh
FaceNormal(j) ==
    LET v0 == vertices[indices[3 * j + 1] + 1]
        v1 == vertices[indices[3 * j + 2] + 1]
        v2 == vertices[indices[3 * j + 3] + 1]
    IN Normalize(Cross(VSub(v1, v0), VSub(v2, v0)))

\* the face normals of the triangle corners among the first p indices that
\* reference vertex i (from 0): their sum and their number
RECURSIVE RefsUpTo(_, _)
RefsUpTo(i, p) ==
    IF p = 0 THEN [sum |-> ZERO, count |-> 0]
    ELSE LET r == RefsUpTo(i, p - 1)
         IN IF indices[p] = i
            THEN [sum |-> VAdd(r.sum, FaceNormal((p - 1) \div 3)),
                  count |-> r.count + 1]
            ELSE r

\* two triangles that lie in one plane and face the same way
CoplanarPair ==
    /\ Len(indices) = 6
    /\ FaceNormal(0) # VecNaN
    /\ FaceNormal(0) = FaceNormal(1)

----------------------------------------------------------------------------
(* The colour list returned by calculate_colors *)

\* the complete triangles (from 0) of indices that reference vertex i (from 0)
TrianglesOf(i) ==
    {k \in 0..((Len(indices) \div 3) - 1) :
        i \in {indices[3 * k + 1], indices[3 * k + 2], indices[3 * k + 3]}}

\* the last of them in index order
LastTriangleOf(i) == CHOOSE k \in TrianglesOf(i) : \A m \in TrianglesOf(i) : m <= k

\* the colour the loop gives triangle k: that of the normal at its first index
ColorOfTriangle(k) == TriangleColor(normals[indices[3 * k + 1] + 1], CosThr(angle))

\* C13: calculate_colors returns exactly one colour per vertex; on a mesh
\* with shared vertices a vertex ends with the colour of the last triangle
\* in index order that references it, and a vertex no complete triangle
\* references keeps the initial (1, 1, 1, 1).
C13_LastWriteWins ==
    pc = "done" =>
        /\ Len(colors) = Len(vertices)
        /\ \A i \in 1..Len(vertices) :
              colors[i] = IF TrianglesOf(i - 1) = {} THEN White
                          ELSE ColorOfTriangle(LastTriangleOf(i - 1))

\* two triangles of different colours share vertices 0 and 1, vertex 2 is
\* referenced by neither: the shared ones carry the second colour, vertex 2
\* is white
C13_Witness ==
    /\ pc = "done"
    /\ indices = <<0, 1, 1, 1, 0, 0>>
    /\ ColorOfTriangle(0) # ColorOfTriangle(1)
    /\ colors[1] = ColorOfTriangle(1)
    /\ colors[2] = ColorOfTriangle(1)
    /\ colors[3] = White

----------------------------------------------------------------------------
(* The needs_update flag and the scheduling of rebuilds *)

\* the step in which update_mesh runs
UpdateMeshRuns == "update_mesh" \notin ran /\ "update_mesh" \in ran'

\* the step in which ui_system runs
UiSystemRuns == "ui_system" \notin ran /\ "ui_system" \in ran'

\* C16: update_mesh is gated by needs_update.  Run with the flag false it
\* changes nothing: viewer, MeshData and the entities stay as they are and
\* nothing is queued, so the frame ends with the same tiles.  Run with the
\* flag true it always leaves the flag false, whether or not a path is set
\* and whether or not the load succeeds.  The flag becomes true only in
\* ui_system, on a picked file or a change of the angle.
C16_GatedByNeedsUpdate ==
    [][/\ (UpdateMeshRuns /\ ~viewer.needs_update) =>
              /\ viewer' = viewer
              /\ mesh_data' = mesh_data
              /\ tile_entities' = tile_entities
              /\ debug_mesh' = debug_mesh
              /\ commands' = NoCommands
              /\ gen' = gen
       /\ (FrameEnd /\ load_result = "skipped") =>
              (tile_entities' = tile_entities /\ mesh_data' = mesh_data)
       /\ (UpdateMeshRuns /\ viewer.needs_update) => ~viewer'.needs_update
       /\ (~viewer.needs_update /\ viewer'.needs_update) =>
              /\ UiSystemRuns
              /\ \/ viewer'.walkable_slope_angle # viewer.walkable_slope_angle
                 \/ \E pick \in Paths, new_angle \in SliderAngles :
                       ui_system(pick, new_angle)]_vars

\* update_mesh has run on a request whose file does not load, and the flag
\* is false again
C16_Witness ==
    /\ "update_mesh" \in ran
    /\ load_result = "err"
    /\ viewer.obj_path = "bad.obj"
    /\ ~viewer.needs_update

\* the outcome of a rebuild for a given path
LoadOutcome(path) ==
    IF path = NoPath THEN "nopath"
    ELSE IF load_obj(path).ok THEN "ok" ELSE "err"

\* C17: a rebuild request is never lost to the order of the two systems
\* within a frame.  A request made by ui_system stays pending (needs_update
\* stays true) until update_mesh runs, and that happens in the same or in
\* the next frame: no request is older than that.  update_mesh rebuilds
\* exactly when a request is pending, once, and with the path and the angle
\* the viewer holds at that moment.
C17_RequestNeverLost ==
    /\ [](/\ request_age # "overdue"
          /\ request_age # "none" => viewer.needs_update)
    /\ [][/\ gen' # gen => (UpdateMeshRuns /\ viewer.needs_update)
          /\ (UpdateMeshRuns /\ viewer.needs_update) =>
                 /\ gen' = gen + 1
                 /\ request_age' = "none"
                 /\ load_result' = LoadOutcome(viewer.obj_path)
                 /\ \A e \in commands'.spawn :
                       ColouredAt(e.mesh, viewer.walkable_slope_angle)
                 /\ load_result' = "ok" =>
                       commands'.insert[1].vertices =
                           Tail(load_obj(viewer.obj_path).data.vertices)]_vars

\* a request made after update_mesh had run in its frame has reached the
\* next frame, where ui_system ran first and update_mesh is about to run
C17_Witness ==
    /\ request_age = "last frame"
    /\ viewer.needs_update
    /\ ran = {"ui_system"}

----------------------------------------------------------------------------
(* The set of tiles split_mesh_into_tiles returns *)

\* the number of tiles in the bounding rectangle of the corner tiles ct
RectArea(ct) ==
    LET min_x == Min2(Min2(ct[1][1], ct[2][1]), ct[3][1])
        max_x == Max2(Max2(ct[1][1], ct[2][1]), ct[3][1])
        min_z == Min2(Min2(ct[1][2], ct[2][2]), ct[3][2])
        max_z == Max2(Max2(ct[1][2], ct[2][2]), ct[3][2])
    IN (max_x - min_x + 1) * (max_z - min_z + 1)

\* the sum of the rectangle areas of the first n complete triangles
RECURSIVE AreaSum(_)
AreaSum(n) == IF n = 0 THEN 0 ELSE AreaSum(n - 1) + RectArea(CornerTileSeq(n))

\* the number of triangle copies held by the tiles at the given coordinates
RECURSIVE CopiesIn(_)
CopiesIn(keys) ==
    IF keys = {} THEN 0
    ELSE LET key == CHOOSE k \in keys : TRUE
         IN (Len(tiles[key].inds) \div 3) + CopiesIn(keys \ {key})

\* C18: the split returns no empty tile and a tile for a coordinate exactly
\* when the coordinate lies in the corner bounding rectangle of at least one
\* input triangle; the triangle copies of all tiles together number the sum
\* over the input triangles of (max_x - min_x + 1) * (max_z - min_z + 1); a
\* trailing incomplete index group contributes nothing.
C18_TilesAreTheRectangles ==
    pc = "done" =>
        LET cts == [j \in 1..TriCount |-> CornerTileSeq(j)]
        IN /\ DOMAIN tiles \subseteq AllKeys
           /\ \A key \in AllKeys :
                 key \in DOMAIN tiles <=> \E j \in 1..TriCount : RectHas(cts[j], key)
           /\ \A key \in DOMAIN tiles :
                 /\ Len(tiles[key].verts) >= 3
                 /\ Len(tiles[key].inds) = Len(tiles[key].verts)
                 /\ Len(tiles[key].norms) = Len(tiles[key].verts)
           /\ CopiesIn(DOMAIN tiles) = AreaSum(TriCount)

\* two triangles followed by an incomplete group were split; one triangle
\* spans several tiles, so there are more copies than triangles
C18_Witness ==
    /\ pc = "done"
    /\ indices = <<0, 1, 3, 2, 1, 0, 2>>
    /\ RectArea(CornerTileSeq(1)) >= 4
    /\ CopiesIn(DOMAIN tiles) = AreaSum(2)
    /\ CopiesIn(DOMAIN tiles) > 2

----------------------------------------------------------------------------
(* net.rs: the actor messages and their JSON form *)

\* Vector3 { x, y, z } with f32 components in thousandths
Vector3(x, y, z) == [x |-> x, y |-> y, z |-> z]

\* the variants of ActorMessage with their payload structs
ActorMove(id, orig, dest) ==
    [variant |-> "Move", id |-> id, orig |-> orig, dest |-> dest]

ActorSpawn(id, actor_type, position) ==
    [variant |-> "Spawn", id |-> id, actor_type |-> actor_type, position |-> position]

ActorDespawn(id) == [variant |-> "Despawn", id |-> id]

\* JSON values: strings, numbers, null and objects (a record of members)
JString(s) == [t |-> "string", v |-> s]

JNumber(f) == [t |-> "number", v |-> f]

JNull == [t |-> "null", v |-> <<>>]

JObject(members) == [t |-> "object", v |-> members]

\* serde_json writes a finite f32 as a number, and NaN or an infinity as null
SerializeF32(f) == IF f = NaN THEN JNull ELSE JNumber(f)

\* derive(Serialize) for Vector3
SerializeVector3(p) ==
    JObject([x |-> SerializeF32(p.x), y |-> SerializeF32(p.y), z |-> SerializeF32(p.z)])

to_string_NoRename(m) ==
    CASE m.variant = "Move" ->
             JObject([message_type |-> JString("Move"),
                      id |-> JString(m.id),
                      orig |-> SerializeVector3(m.orig),
                      dest |-> SerializeVector3(m.dest)])
      [] m.variant = "Spawn" ->
             JObject([message_type |-> JString("Spawn"),
                      id |-> JString(m.id),
                      actor_type |-> JString(m.actor_type),
                      position |-> SerializeVector3(m.position)])
      [] m.variant = "Despawn" ->
             JObject([message_type |-> JString("Despawn"),
                      id |-> JString(m.id)])

\* serde_json::to_string of an ActorMessage: derive(Serialize) with
\* #[serde(tag = "message_type")] puts the variant name under message_type
\* next to the payload's members; actor_type is renamed to "type"
to_string(m) ==
    CASE m.variant = "Move" ->
             JObject([message_type |-> JString("Move"),
                      id |-> JString(m.id),
                      orig |-> SerializeVector3(m.orig),
                      dest |-> SerializeVector3(m.dest)])
      [] m.variant = "Spawn" ->
             JObject([message_type |-> JString("Spawn"),
                      id |-> JString(m.id),
                      type |-> JString(m.actor_type),
                      position |-> SerializeVector3(m.position)])
      [] m.variant = "Despawn" ->
             JObject([message_type |-> JString("Despawn"),
                      id |-> JString(m.id)])

\* the results of deserialising: Ok(value) and Err(_)
Ok(value) == [ok |-> TRUE, value |-> value]

Err == [ok |-> FALSE, value |-> <<>>]

\* object j has a member key of JSON type t
HasMember(j, key, t) ==
    /\ j.t = "object"
    /\ key \in DOMAIN j.v
    /\ j.v[key].t = t

\* derive(Deserialize) for Vector3: all of x, y, z must be numbers
DeserializeVector3(j) ==
    IF HasMember(j, "x", "number") /\ HasMember(j, "y", "number")
       /\ HasMember(j, "z", "number")
    THEN Ok(Vector3(j.v.x.v, j.v.y.v, j.v.z.v))
    ELSE Err

\* serde_json::from_str::<ActorMessage>: the variant is chosen by the string
\* under message_type, then the payload struct is read from the remaining
\* members; a missing member or one of the wrong type is an error
from_str(j) ==
    IF ~HasMember(j, "message_type", "string") \/ ~HasMember(j, "id", "string")
    THEN Err
    ELSE CASE j.v.message_type.v = "Move" ->
                  IF HasMember(j, "orig", "object") /\ HasMember(j, "dest", "object")
                     /\ DeserializeVector3(j.v.orig).ok
                     /\ DeserializeVector3(j.v.dest).ok
                  THEN Ok(ActorMove(j.v.id.v, DeserializeVector3(j.v.orig).value,
                                    DeserializeVector3(j.v.dest).value))
                  ELSE Err
           [] j.v.message_type.v = "Spawn" ->
                  IF HasMember(j, "type", "string") /\ HasMember(j, "position", "object")
                     /\ DeserializeVector3(j.v.position).ok
                  THEN Ok(ActorSpawn(j.v.id.v, j.v.type.v,
                                     DeserializeVector3(j.v.position).value))
                  ELSE Err
           [] j.v.message_type.v = "Despawn" -> Ok(ActorDespawn(j.v.id.v))
           [] OTHER -> Err

----------------------------------------------------------------------------
(* The JSON round trip of the tests in net.rs, inputs drawn from bounded sets *)

MessageIds == {"player1", "enemy1"}

ActorTypes == {"goblin", ""}

\* the origin, a point with fractional and negative coordinates, and two
\* points with a NaN coordinate
MessagePoints ==
    {Vector3(0, 0, 0), Vector3(1500, -2000, 10000), Vector3(NaN, 0, 0),
     Vector3(0, 5000, NaN)}

Messages ==
    {ActorMove(id, orig, dest) :
        id \in MessageIds, orig \in MessagePoints, dest \in MessagePoints}
    \cup {ActorSpawn(id, actor_type, position) :
            id \in MessageIds, actor_type \in ActorTypes, position \in MessagePoints}
    \cup {ActorDespawn(id) : id \in MessageIds}

InitJson ==
    /\ IdleApp
    /\ IdleSocket
    /\ vertices = <<>>
    /\ indices = <<>>
    /\ normals = <<>>
    /\ tile_size = TILE_SIZE
    /\ angle = Deg(45)
    /\ obj = PointsObj
    /\ tiles = <<>>
    /\ colors = <<>>
    /\ ci = 0
    /\ pc = "to_string"
    /\ msg \in Messages
    /\ json = <<>>
    /\ back = <<>>

\* let json = serde_json::to_string(&msg).unwrap()
JsonSerialize ==
    /\ pc = "to_string"
    /\ json' = to_string(msg)
    /\ pc' = "from_str"
    /\ UNCHANGED <<msg, back>>
    /\ UNCHANGED <<vertices, indices, normals, tile_size, angle, obj, tiles, colors, ci>>
    /\ UNCHANGED appVars
    /\ UNCHANGED socketVars

\* let deserialized: ActorMessage = serde_json::from_str(&json)
JsonDeserialize ==
    /\ pc = "from_str"
    /\ back' = from_str(json)
    /\ pc' = "done"
    /\ UNCHANGED <<msg, json>>
    /\ UNCHANGED <<vertices, indices, normals, tile_size, angle, obj, tiles, colors, ci>>
    /\ UNCHANGED appVars
    /\ UNCHANGED socketVars

NextJson == JsonSerialize \/ JsonDeserialize

SpecJson == InitJson /\ [][NextJson]_vars

\* the coordinates of a message, all of them
Coordinates(m) ==
    CASE m.variant = "Move" -> {m.orig.x, m.orig.y, m.orig.z, m.dest.x, m.dest.y, m.dest.z}
      [] m.variant = "Spawn" -> {m.position.x, m.position.y, m.position.z}
      [] m.variant = "Despawn" -> {}

\* the document carries the variant under message_type and, for Spawn, the
\* actor type under "type"
TaggedAsDeclared ==
    /\ json.v.message_type = JString(msg.variant)
    /\ msg.variant = "Spawn" =>
           ("type" \in DOMAIN json.v /\ json.v.type = JString(msg.actor_type))

\* deserialising gave the same variant with the same id and actor_type
SameVariantAndFields ==
    /\ back.ok
    /\ back.value.variant = msg.variant
    /\ back.value.id = msg.id
    /\ msg.variant = "Spawn" => back.value.actor_type = msg.actor_type

\* C14 as stated: for every variant and every field value, serialising an
\* ActorMessage and deserialising the result gives the same variant with the
\* same id (and actor_type for Spawn); the variant travels under
\* message_type and Spawn's actor_type under "type".
C14_AsClaimed ==
    pc = "done" => (TaggedAsDeclared /\ SameVariantAndFields)

\* C14 (amended): the round trip gives the same variant with the same id
\* and actor_type for every message whose coordinates are all finite; a message with a NaN or infinite coordinate
\* serialises that coordinate as null and does not deserialise.  The variant
\* travels under message_type and Spawn's actor_type under "type".
C14_RoundTripOfFiniteMessages ==
    pc = "done" =>
        /\ TaggedAsDeclared
        /\ NaN \notin Coordinates(msg) => SameVariantAndFields
        /\ NaN \in Coordinates(msg) => ~back.ok

\* a Spawn with finite position went through the round trip
C14_Witness ==
    /\ pc = "done"
    /\ msg = ActorSpawn("enemy1", "goblin", Vector3(1500, -2000, 10000))
    /\ json.v.type = JString("goblin")
    /\ back.ok
    /\ back.value.variant = "Spawn"
    /\ back.value.id = "enemy1"
    /\ back.value.actor_type = "goblin"

----------------------------------------------------------------------------
(* net.rs: try_read on the non-blocking socket *)

\* bound: the number of frames the peer sends on one connection
MaxFrames == 2

\* The UTF-8 text of a JSON document, for the Despawn messages the peer sends
\* here, abridged to one byte per token: '{', 'D' for the tag, the
\* characters of the id, '}'.
IdChars(id) ==
    CASE id = "a" -> <<97>>
      [] id = "bc" -> <<98, 99>>

Utf8Text(j) == <<123, 68>> \o IdChars(j.v.id.v) \o <<125>>

\* the JSON parser on such a text: Err for anything that is not a complete
\* document, a text cut short or padded with NUL bytes included
ParseText(buf) ==
    IF \E id \in {"a", "bc"} : buf = <<123, 68>> \o IdChars(id) \o <<125>>
    THEN Ok(JObject([message_type |-> JString("Despawn"),
                     id |-> JString(CHOOSE id \in {"a", "bc"} :
                                       buf = <<123, 68>> \o IdChars(id) \o <<125>>)]))
    ELSE Err

\* std::str::from_utf8: every byte below 128 is valid
from_utf8(buf) == IF \A i \in 1..Len(buf) : buf[i] < 128 THEN Ok(buf) ELSE Err

\* u32::to_be_bytes and u32::from_be_bytes
to_be_bytes(n) ==
    <<(n \div 16777216) % 256, (n \div 65536) % 256, (n \div 256) % 256, n % 256>>

from_be_bytes(b) == b[1] * 16777216 + b[2] * 65536 + b[3] * 256 + b[4]

\* one frame of the protocol: the length header and the text
Frame(m) ==
    LET text == Utf8Text(to_string(m))
    IN to_be_bytes(Len(text)) \o text

Zeros(n) == [i \in 1..n |-> 0]

\* TcpStream::peek on a non-blocking socket holding rx: the number of bytes
\* copied, at most n, or Err(WouldBlock) when nothing has arrived
peek(rx, n) == IF rx = <<>> THEN Err ELSE Ok(Min2(n, Len(rx)))

\* Read::read_exact on a non-blocking socket holding rx, into a zeroed buffer
\* of n bytes: with n bytes present it takes them; with fewer it takes what
\* is there, then fails with WouldBlock and leaves the rest of buf as it was
read_exact(rx, n) ==
    IF Len(rx) >= n
    THEN [ok |-> TRUE, buf |-> SubSeq(rx, 1, n), rest |-> SubSeq(rx, n + 1, Len(rx))]
    ELSE [ok |-> FALSE, buf |-> rx \o Zeros(n - Len(rx)), rest |-> <<>>]

HeaderReadyAny(len) == len.ok

\* match len { Ok(4) => {}, Ok(_) => return, Err(_) => return }
HeaderReady(len) == len.ok /\ len.value = 4

\* the process is alive: no unwrap has panicked
Running == last_read.outcome # "panic"

\* ui_system, the "Mitm" window: the connect button was clicked; connected
\* tells whether TcpStream::connect succeeded.  The new socket is
\* non-blocking and the initial command is written to it.
mitm_connect(connected) ==
    /\ Running
    /\ IF connected
       THEN /\ mitm_info' = [mitm_info EXCEPT
                               !.socket = <<[rx |-> <<>>, tx |-> <<0, 0, 0, 1, 1>>]>>]
            /\ wire' = <<>>
            /\ sent' = <<>>
            /\ taken' = 0
       ELSE UNCHANGED <<mitm_info, wire, sent, taken>>
    /\ UNCHANGED last_read
    /\ UNCHANGED <<appVars, funVars, jsonVars>>

\* the peer sends one more frame
PeerSend(m) ==
    /\ mitm_info.socket # <<>>
    /\ Len(sent) < MaxFrames
    /\ wire' = wire \o Frame(m)
    /\ sent' = Append(sent, Frame(m))
    /\ UNCHANGED <<mitm_info, taken, last_read>>
    /\ UNCHANGED <<appVars, funVars, jsonVars>>

\* the next k bytes in flight reach the socket's receive buffer
Arrive(k) ==
    /\ mitm_info.socket # <<>>
    /\ k \in 1..Len(wire)
    /\ mitm_info' = [mitm_info EXCEPT
                        !.socket[1].rx = @ \o SubSeq(wire, 1, k)]
    /\ wire' = SubSeq(wire, k + 1, Len(wire))
    /\ UNCHANGED <<sent, taken, last_read>>
    /\ UNCHANGED <<appVars, funVars, jsonVars>>

\* try_read: returns when there is no socket or the 4 header bytes cannot be
\* peeked; otherwise reads the header, then count bytes with the result of
\* read_exact ignored, and unwraps from_utf8 and from_str on the buffer
try_read ==
    /\ Running
    /\ IF mitm_info.socket = <<>>
       THEN /\ last_read' = [NoRead EXCEPT !.outcome = "no socket"]
            /\ UNCHANGED <<mitm_info, taken>>
       ELSE LET rx == mitm_info.socket[1].rx
                len == peek(rx, 4)
            IN IF ~HeaderReady(len)
               THEN /\ last_read' = [NoRead EXCEPT !.outcome = "no header"]
                    /\ UNCHANGED <<mitm_info, taken>>
               ELSE LET lbuf == read_exact(rx, 4)
                        count == from_be_bytes(lbuf.buf)
                        buf == read_exact(lbuf.rest, count)
                        text == from_utf8(buf.buf)
                        parsed == IF text.ok THEN ParseText(text.value) ELSE Err
                        message == IF parsed.ok THEN from_str(parsed.value) ELSE Err
                        used == Len(rx) - Len(buf.rest)
                    IN /\ mitm_info' = [mitm_info EXCEPT !.socket[1].rx = buf.rest]
                       /\ taken' = taken + used
                       /\ last_read' =
                             [outcome |-> IF message.ok THEN "decoded" ELSE "panic",
                              consumed |-> SubSeq(rx, 1, used),
                              text |-> buf.buf,
                              message |-> IF message.ok THEN <<message.value>>
                                          ELSE <<>>]
    /\ UNCHANGED <<wire, sent>>
    /\ UNCHANGED <<appVars, funVars, jsonVars>>

NetMessages == {ActorDespawn("a"), ActorDespawn("bc")}

InitNet ==
    /\ IdleApp
    /\ IdleFun
    /\ IdleNet

NextNet ==
    \/ \E connected \in BOOLEAN : mitm_connect(connected)
    \/ \E m \in NetMessages : PeerSend(m)
    \/ \E k \in 1..Len(wire) : Arrive(k)
    \/ try_read

SpecNet == InitNet /\ [][NextNet]_vars

\* the stream positions at which a frame of this connection ends
RECURSIVE FramesLen(_)
FramesLen(n) == IF n = 0 THEN 0 ELSE FramesLen(n - 1) + Len(sent[n])

FrameBoundaries == {FramesLen(n) : n \in 0..Len(sent)}

\* bytes is one whole frame: a 4-byte header and exactly as many bytes as
\* the header says
WholeFrame(bytes) ==
    /\ Len(bytes) >= 4
    /\ Len(bytes) = 4 + from_be_bytes(SubSeq(bytes, 1, 4))

\* the latest try_read call took bytes from the socket
ConsumedSomething == last_read.consumed # <<>>

\* C15: whatever the arrival pattern, a try_read call that consumes anything
\* consumes exactly one whole frame, the 4-byte big-endian header and
\* exactly that many body bytes, and decodes exactly those body bytes: it
\* never decodes a body that has only partly arrived and never leaves the
\* stream positioned in the middle of a frame.
C15_AsClaimed ==
    /\ ConsumedSomething =>
          /\ WholeFrame(last_read.consumed)
          /\ last_read.text = SubSeq(last_read.consumed, 5, Len(last_read.consumed))
          /\ last_read.outcome = "decoded"
    /\ taken \in FrameBoundaries

\* a step of try_read, the only action that writes last_read
TryReadReturns == last_read' # last_read

\* C19: try_read consumes nothing unless a full header is available: bytes
\* leave the socket only in a call made with a socket holding at least 4
\* bytes, and a call that finds no socket or cannot peek 4 bytes leaves
\* MitmInfo, the socket's pending bytes included, as it was.
C19_NothingConsumedWithoutHeader ==
    [][/\ taken' > taken =>
              /\ mitm_info.socket # <<>>
              /\ Len(mitm_info.socket[1].rx) >= 4
       /\ (TryReadReturns
           /\ (mitm_info.socket = <<>> \/ Len(mitm_info.socket[1].rx) < 4)) =>
              /\ mitm_info' = mitm_info
              /\ taken' = taken
              /\ last_read'.consumed = <<>>]_vars

\* a call found 2 of the 4 header bytes and returned: they are still there
C19_Witness ==
    /\ last_read.outcome = "no header"
    /\ mitm_info.socket # <<>>
    /\ mitm_info.socket[1].rx = <<0, 0>>
    /\ taken = 0

====
